---- MODULE Spec2Model ----
(***************************************************************************)
(* Model of tensorflow_estimator/python/estimator/canned/timeseries/       *)
(* saved_model_utils.py: shape canonicalization of Numpy feature           *)
(* dictionaries, construction of feed/fetch dictionaries from a saved      *)
(* model signature, and the filter/predict wrappers around session.run.    *)
(*                                                                         *)
(* A Numpy array is a record [shape, data]: shape is the tuple of          *)
(* dimension sizes, data identifies the array's contents (indexing with    *)
(* None/Ellipsis only reshapes, so data is preserved).  A Python dict is   *)
(* a function whose domain is its key set.                                 *)
(***************************************************************************)
EXTENDS Integers, Sequences, FiniteSets, TLC

VARIABLES
  op,                    \* the function called last
  signatures,            \* the loaded model's signatures (MetaGraphDef)
  data,                  \* data/features argument of the last call
  require_single_batch,  \* require_single_batch argument of the last call
  continue_from,         \* continue_from argument of the last call
  result,                \* the last call: its outcome (status, returned value),
                         \* the features and prediction times it computed,
                         \* the fetches and feed_dict it built, and whether
                         \* it ran the session
  chain                  \* latest evaluation or filtering output the caller holds

vars == <<op, signatures, data, require_single_batch, continue_from,
          result, chain>>

----------------------------------------------------------------------------
(* Bounds of the model. *)

\* Dimension sizes range over 0..MaxDim.
MaxDim == 2

\* Contents of times arrays are identified by 1..MaxTime.
MaxTime == 2

\* The model's state tuple has MaxStateLen components.
MaxStateLen == 2

\* predict_continuation is asked for at most MaxSteps steps.
MaxSteps == 2

----------------------------------------------------------------------------
(* Feature keys (feature_keys.TrainEvalFeatures / FilteringFeatures). *)

TIMES == "times"

VALUES == "values"

\* A sample exogenous feature key.
EXOG == "exogenous"

\* Number of dimensions of [batch size, series length].
BatchedRank == 2

----------------------------------------------------------------------------
(* Helpers on shapes, arrays and dicts. *)

Min(a, b) == IF a < b THEN a ELSE b

Dims == 0 .. MaxDim

\* All shapes with exactly n dimensions.
RECURSIVE ShapesOfRank(_)
ShapesOfRank(n) ==
  IF n = 0 THEN {<< >>}
  ELSE {Append(s, d) : s \in ShapesOfRank(n - 1), d \in Dims}

\* All shapes with at most n dimensions.
Shapes(n) == UNION {ShapesOfRank(k) : k \in 0 .. n}

Array(shape, d) == [shape |-> shape, data |-> d]

ndim(a) == Len(a.shape)

EmptyDict == [k \in {} |-> Array(<< >>, 0)]

\* value.shape[:n]
ShapePrefix(shape, n) == SubSeq(shape, 1, Min(Len(shape), n))

\* value[..., None]
NewAxisLast(a) == [a EXCEPT !.shape = Append(@, 1)]

\* A slip of value[None, ...]: no batch dimension is added.
NewAxisFirst_Omitted(a) == a

\* value[None, ...]
NewAxisFirst(a) == [a EXCEPT !.shape = <<1>> \o @]

\* value[None, None, ...]
NewAxisFirst2(a) == [a EXCEPT !.shape = <<1, 1>> \o @]

\* Python's None, and a value that is not None.
None == [none |-> TRUE, some |-> EmptyDict]

Some(v) == [none |-> FALSE, some |-> v]

ValueError(why) == [status |-> "ValueError", why |-> why, value |-> EmptyDict]

Ok(features) == [status |-> "ok", why |-> "", value |-> features]

----------------------------------------------------------------------------
(* _canonicalize_numpy_data *)

\* Lines 61-65: the required features.
MissingRequired(features) ==
  TIMES \notin DOMAIN features \/ VALUES \notin DOMAIN features

\* A slip of lines 67-73: only VALUES is compared with times.
PrefixMismatch_ValuesOnly(features, times) ==
  ShapePrefix(features[VALUES].shape, ndim(times)) # times.shape

\* Lines 67-73: some feature's shape is not prefixed by the shape of times.
PrefixMismatch(features, times) ==
  \E key \in DOMAIN features :
    ShapePrefix(features[key].shape, ndim(times)) # times.shape

\* Lines 74-89: a single example (times is a scalar).
SingleExample(features) ==
  IF ndim(features[VALUES]) = 0
  THEN LET f1 == [features EXCEPT ![VALUES] = NewAxisLast(@)]
       IN  Ok([key \in DOMAIN f1 |-> NewAxisFirst2(f1[key])])
  ELSE IF ndim(features[VALUES]) > 1
  THEN ValueError("values_ndim")
  ELSE Ok([key \in DOMAIN features |-> NewAxisFirst2(features[key])])

\* Lines 90-112: a sequence (times has shape [series length]), or else the
\* check that times is [batch size, series length].
SequenceOrBatch(features, times) ==
  IF ndim(times) = 1
  THEN IF ndim(features[VALUES]) = 1
       THEN LET f1 == [features EXCEPT ![VALUES] = NewAxisLast(@)]
            IN  Ok([key \in DOMAIN f1 |-> NewAxisFirst(f1[key])])
       ELSE IF ndim(features[VALUES]) > 2
       THEN ValueError("values_ndim")
       ELSE Ok([key \in DOMAIN features |-> NewAxisFirst(features[key])])
  ELSE IF ndim(features[TIMES]) # BatchedRank
  THEN ValueError("times_ndim")
  ELSE Ok(features)

\* A slip of line 115: the batch size is compared with > 1.
SingleBatchCheck_Greater(features, rsb) ==
  IF rsb /\ features[TIMES].shape[1] > 1
  THEN ValueError("batch")
  ELSE Ok(features)

\* Lines 113-117: the require_single_batch check.
SingleBatchCheck(features, rsb) ==
  IF rsb /\ features[TIMES].shape[1] # 1
  THEN ValueError("batch")
  ELSE Ok(features)

\* Lines 66-117.  `times` is bound once (line 66) to the input's TIMES entry
\* and is not rebound when `features` is rebuilt.
CanonicalizePresent(d, rsb) ==
  LET times == d[TIMES] IN
    IF PrefixMismatch(d, times) THEN ValueError("prefix")
    ELSE LET r1 == IF ndim(times) = 0 THEN SingleExample(d) ELSE Ok(d) IN
      IF r1.status # "ok" THEN r1
      ELSE LET r2 == SequenceOrBatch(r1.value, times) IN
        IF r2.status # "ok" THEN r2
        ELSE SingleBatchCheck(r2.value, rsb)

\* A slip of lines 61-65: without the check, line 66 or 75 raises KeyError.
canonicalize_numpy_data_Unchecked(d, rsb) ==
  IF MissingRequired(d)
  THEN [status |-> "KeyError", why |-> "missing", value |-> EmptyDict]
  ELSE CanonicalizePresent(d, rsb)

\* Lines 34-117.
canonicalize_numpy_data(d, rsb) ==
  IF MissingRequired(d) THEN ValueError("missing")
  ELSE CanonicalizePresent(d, rsb)

----------------------------------------------------------------------------
(* The loaded model: signatures, graph and session. *)

\* feature_keys.FilteringResults.STATE_TUPLE
STATE_TUPLE == "start_tuple"

\* feature_keys.SavedModelLabels
PREDICT == "predict"

FILTER == "filter"

COLD_START_FILTER == "cold_start_filter"

\* A model-specific prediction output.
MEAN == "mean"

\* An entry of an Estimator evaluation that is not model state.
LOSS == "loss"

\* "{}_{:02d}".format(State.STATE_PREFIX, i), for i < 10.
StateKey(i) == "model_state_0" \o ToString(i)

StateKeys(n) == {StateKey(i) : i \in 0 .. n - 1}

\* head.state_to_dictionary: the flattened state tuple keyed by StateKey.
state_to_dictionary(state_tuple) ==
  [k \in StateKeys(Len(state_tuple)) |->
     state_tuple[CHOOSE i \in 1 .. Len(state_tuple) : StateKey(i - 1) = k]]

\* The exported models: the number n of state tensors, whether the exogenous
\* feature is an input, whether the signatures have an output named TIMES.
Signatures ==
  [n : {MaxStateLen}, exog_input : BOOLEAN, times_output : BOOLEAN]

\* signatures.signature_def[label]: tensor names by input and output key.
SignatureDef(sigs, label) ==
  LET exog == IF sigs.exog_input THEN {EXOG} ELSE {}
      ins  == IF label = COLD_START_FILTER THEN {TIMES, VALUES} \cup exog
              ELSE IF label = FILTER
              THEN {TIMES, VALUES} \cup exog \cup StateKeys(sigs.n)
              ELSE {TIMES} \cup exog \cup StateKeys(sigs.n)
      outs == (IF label = PREDICT THEN {MEAN} ELSE StateKeys(sigs.n))
              \cup (IF sigs.times_output THEN {TIMES} ELSE {})
  IN  [inputs  |-> [k \in ins  |-> label \o "/inputs/" \o k \o ":0"],
       outputs |-> [k \in outs |-> label \o "/outputs/" \o k \o ":0"]]

\* graph.as_graph_element(name): the tensor of that name.
as_graph_element(name) == [tensor |-> name]

\* session.run(fetches, feed_dict=...): one array per fetch; what the graph
\* computes is not modelled, s identifies the contents it returns.
session_run(s, fetch, feed) == [k \in DOMAIN fetch |-> Array(<<1, 1>>, s)]

Sessions == {0, MaxTime}

----------------------------------------------------------------------------
(* _colate_features_to_feeds_and_fetches *)

\* A slip of lines 123-130: state is fed only from a state tuple.
StateValues_TupleOnly(cf) ==
  IF cf.none \/ STATE_TUPLE \notin DOMAIN cf.some THEN EmptyDict
  ELSE state_to_dictionary(cf.some[STATE_TUPLE].tuple)

\* Lines 123-130.
StateValues(cf) ==
  IF cf.none THEN EmptyDict
  ELSE IF STATE_TUPLE \in DOMAIN cf.some
  THEN state_to_dictionary(cf.some[STATE_TUPLE].tuple)
  ELSE cf.some

\* A slip of the loops of lines 140-143: an entry already fed is kept.
FeedWrites_KeepFirst(feed, tensors, values) ==
  LET written == {tensors[k] : k \in DOMAIN values}
  IN  [t \in DOMAIN feed \cup written |->
         IF t \in DOMAIN feed
         THEN feed[t]
         ELSE values[CHOOSE k \in DOMAIN values : tensors[k] = t]]

\* for key, value in values.items(): feed[tensors[key]] = value
FeedWrites(feed, tensors, values) ==
  LET written == {tensors[k] : k \in DOMAIN values}
  IN  [t \in DOMAIN feed \cup written |->
         IF t \in written
         THEN values[CHOOSE k \in DOMAIN values : tensors[k] = t]
         ELSE feed[t]]

KeyError == [status |-> "KeyError", fetches |-> EmptyDict, feed_dict |-> EmptyDict]

\* Lines 120-144.  Indexing input_feed_tensors_by_name with a key that is
\* not an input of the signature raises KeyError.
colate_features_to_feeds_and_fetches(signature, feats, cf) ==
  LET state_values == StateValues(cf)
      input_feed_tensors_by_name ==
        [k \in DOMAIN signature.inputs |-> as_graph_element(signature.inputs[k])]
      output_tensors_by_name ==
        [k \in DOMAIN signature.outputs |-> as_graph_element(signature.outputs[k])]
  IN  IF \E k \in DOMAIN state_values \cup DOMAIN feats :
           k \notin DOMAIN signature.inputs
      THEN KeyError
      ELSE [status    |-> "ok",
            fetches   |-> output_tensors_by_name,
            feed_dict |-> FeedWrites(
                            FeedWrites(EmptyDict, input_feed_tensors_by_name,
                                       state_values),
                            input_feed_tensors_by_name, feats)]

----------------------------------------------------------------------------
(* predict_continuation, cold_start_filter, filter_continuation *)

\* output[key] = value
DictSet(d, key, value) ==
  [k \in DOMAIN d \cup {key} |-> IF k = key THEN value ELSE d[k]]

\* d.update(e)
DictUpdate(d, e) ==
  [k \in DOMAIN d \cup DOMAIN e |-> IF k \in DOMAIN e THEN e[k] ELSE d[k]]

\* A call that raised before collation.
RaisedEarly(status, why) ==
  [status |-> status, why |-> why, value |-> EmptyDict, features |-> EmptyDict,
   predict_times |-> None, fetches |-> EmptyDict, feed_dict |-> EmptyDict,
   ran |-> FALSE]

\* A slip of lines 246-247 and 295-296: the TIMES entry is not set.
RunAndTrack_Untracked(signature, session, feats, cf, pt) ==
  LET c == colate_features_to_feeds_and_fetches(signature, feats, cf)
  IN  IF c.status # "ok"
      THEN [RaisedEarly(c.status, "input") EXCEPT !.features = feats,
                                                  !.predict_times = pt]
      ELSE [status |-> "ok", why |-> "",
            value |-> session_run(session, c.fetches, c.feed_dict),
            features |-> feats, predict_times |-> pt,
            fetches |-> c.fetches, feed_dict |-> c.feed_dict, ran |-> TRUE]

\* Lines 193-201, 239-248, 287-297: collate, run the session, and set the
\* TIMES entry of the output.
RunAndTrack(signature, session, feats, cf, pt) ==
  LET c == colate_features_to_feeds_and_fetches(signature, feats, cf)
  IN  IF c.status # "ok"
      THEN [RaisedEarly(c.status, "input") EXCEPT !.features = feats,
                                                  !.predict_times = pt]
      ELSE LET output == session_run(session, c.fetches, c.feed_dict)
           IN  [status |-> "ok", why |-> "",
                value |-> DictSet(output, TIMES, feats[TIMES]),
                features |-> feats, predict_times |-> pt,
                fetches |-> c.fetches, feed_dict |-> c.feed_dict, ran |-> TRUE]

\* model_utils.canonicalize_times_or_steps_from_output.  The contents of a
\* times array are identified by the last time they hold.
canonicalize_times_or_steps_from_output(times, steps, previous_model_output) ==
  IF ~steps.none /\ ~times.none THEN ValueError("times_and_steps")
  ELSE IF steps.none /\ times.none THEN ValueError("times_or_steps")
  ELSE LET prev == previous_model_output[TIMES] IN
    IF ~times.none
    THEN LET t == IF ndim(times.some) # BatchedRank
                  THEN NewAxisFirst(times.some) ELSE times.some
         IN  IF prev.shape[1] # t.shape[1] THEN ValueError("batch")
             ELSE IF ~(prev.data < t.data) THEN ValueError("not_after")
             ELSE Ok(t)
    ELSE Ok(Array(<<prev.shape[1], steps.some>>, prev.data + steps.some))

\* Lines 147-201.
predict_continuation(cf, sigs, session, steps, times, exogenous_features) ==
  LET exog == IF exogenous_features.none THEN EmptyDict
              ELSE exogenous_features.some
      pt   == canonicalize_times_or_steps_from_output(times, steps, cf)
  IN  IF pt.status # "ok" THEN RaisedEarly(pt.status, pt.why)
      ELSE RunAndTrack(SignatureDef(sigs, PREDICT), session,
                       DictUpdate([k \in {TIMES} |-> pt.value], exog),
                       Some(cf), Some(pt.value))

\* Lines 204-248.
cold_start_filter(sigs, session, feats) ==
  LET canon == canonicalize_numpy_data(feats, FALSE)
  IN  IF canon.status # "ok" THEN RaisedEarly(canon.status, canon.why)
      ELSE RunAndTrack(SignatureDef(sigs, COLD_START_FILTER), session,
                       canon.value, None, None)

\* Lines 251-297.
filter_continuation(cf, sigs, session, feats) ==
  LET canon == canonicalize_numpy_data(feats, FALSE)
  IN  IF canon.status # "ok" THEN RaisedEarly(canon.status, canon.why)
      ELSE RunAndTrack(SignatureDef(sigs, FILTER), session,
                       canon.value, Some(cf), None)

----------------------------------------------------------------------------
(* Inputs of _canonicalize_numpy_data. *)

TimesShapes == Shapes(BatchedRank + 1)

\* One dimension more than any accepted VALUES has.
ValuesShapes == Shapes(BatchedRank + 2)

\* Shapes of an exogenous feature: prefixed by the shape t of times with at
\* most one dimension of its own, or unrelated to t.
ExogShapes(t) == {t \o s : s \in Shapes(1)} \cup Shapes(1)

\* An optional dict entry: absent, or an array of one of the shapes.
Opt(shapes) ==
  {[present |-> FALSE, shape |-> << >>]} \cup
  {[present |-> TRUE, shape |-> s] : s \in shapes}

\* The dict with the present ones of the entries TIMES, VALUES and EXOG;
\* td identifies the contents of the TIMES entry.
MkData(t, v, e, td) ==
  LET entry == [k \in {TIMES, VALUES, EXOG} |->
                  IF k = TIMES THEN t ELSE IF k = VALUES THEN v ELSE e]
  IN  [k \in {k \in {TIMES, VALUES, EXOG} : entry[k].present} |->
         Array(entry[k].shape, IF k = TIMES THEN td ELSE 0)]

\* A call of _canonicalize_numpy_data that ended as c.
Canonicalized(c) == [RaisedEarly(c.status, c.why) EXCEPT !.value = c.value]

CanonInit ==
  /\ op = "none"
  /\ signatures \in {s \in Signatures : ~s.exog_input /\ ~s.times_output}
  /\ \E t \in Opt(TimesShapes), v \in Opt(ValuesShapes) :
       \E e \in Opt(ExogShapes(t.shape)) :
         data = MkData(t, v, e, 1)
  /\ require_single_batch \in BOOLEAN
  /\ continue_from = None
  /\ result = Canonicalized(Ok(EmptyDict))
  /\ chain = None

\* A direct call _canonicalize_numpy_data(data=d, require_single_batch=rsb).
CanonicalizeCall(d, rsb) ==
  /\ op' = "canonicalize"
  /\ data' = d
  /\ require_single_batch' = rsb
  /\ result' = Canonicalized(canonicalize_numpy_data(d, rsb))
  /\ continue_from' = None
  /\ UNCHANGED <<signatures, chain>>

\* The call on the arguments drawn by CanonInit.
CanonicalizeGiven ==
  /\ op = "none"
  /\ CanonicalizeCall(data, require_single_batch)

CanonNext == CanonicalizeGiven

SpecCanon == CanonInit /\ [][CanonNext]_vars

----------------------------------------------------------------------------
(* A caller chaining evaluation, filtering and prediction on one model. *)

\* Shapes of times given to the filters: scalar, [series length] and
\* [batch size, series length].
FilterTimesShapes == {<< >>, <<MaxDim>>, <<1, MaxDim>>}

\* Feature dicts given to the filters and to direct canonicalization.
FilterInputs ==
  UNION { { MkData(t, v, e, td) :
              v \in Opt({t.shape}),
              e \in Opt({t.shape}),
              td \in 1 .. MaxTime } :
          t \in Opt(FilterTimesShapes) }

\* Results of an Estimator's evaluate method for a model with n state tensors.
Evaluations(n) ==
  { [k \in {STATE_TUPLE, TIMES, LOSS} |->
       IF k = STATE_TUPLE THEN [tuple |-> [i \in 1 .. n |-> Array(<<1, 1>>, s)]]
       ELSE IF k = TIMES THEN Array(<<1, MaxDim>>, td)
       ELSE Array(<< >>, s)] :
    s \in Sessions, td \in 1 .. MaxTime }

\* The times argument of predict_continuation.
PredictTimes ==
  {None} \cup
  {Some(Array(<<1>>, MaxTime + 1)), Some(Array(<<MaxDim, 1>>, MaxTime + 1)),
   Some(Array(<<1, 1>>, 1))}

\* The steps argument of predict_continuation.
PredictSteps == {[none |-> TRUE, some |-> 0]} \cup
                {[none |-> FALSE, some |-> n] : n \in 1 .. MaxSteps}

\* The exogenous_features argument of predict_continuation.
PredictExogenous ==
  {None, Some(EmptyDict),
   Some([k \in {EXOG} |-> Array(<<1, 1>>, 0)]),
   Some([k \in {TIMES} |-> Array(<<1, 1>>, 0)])}

Init ==
  /\ op = "none"
  /\ signatures \in Signatures
  /\ data = EmptyDict
  /\ require_single_batch = FALSE
  /\ continue_from = None
  /\ result = Canonicalized(Ok(EmptyDict))
  /\ chain = None

\* The caller obtains an evaluation of the model from the Estimator.
Evaluate ==
  /\ op' = "evaluate"
  /\ \E ev \in Evaluations(signatures.n) :
       /\ chain' = Some(ev)
       /\ result' = Canonicalized(Ok(ev))
  /\ data' = EmptyDict
  /\ continue_from' = None
  /\ UNCHANGED <<signatures, require_single_batch>>

Canonicalize ==
  \E d \in FilterInputs, rsb \in BOOLEAN : CanonicalizeCall(d, rsb)

ColdStartFilter ==
  /\ op' = "cold_start_filter"
  /\ \E feats \in FilterInputs, session \in Sessions :
       /\ data' = feats
       /\ result' = cold_start_filter(signatures, session, feats)
  /\ chain' = IF result'.status = "ok" THEN Some(result'.value) ELSE chain
  /\ continue_from' = None
  /\ UNCHANGED <<signatures, require_single_batch>>

FilterContinuation ==
  /\ ~chain.none
  /\ op' = "filter_continuation"
  /\ \E feats \in FilterInputs, session \in Sessions :
       /\ data' = feats
       /\ result' = filter_continuation(chain.some, signatures, session, feats)
  /\ chain' = IF result'.status = "ok" THEN Some(result'.value) ELSE chain
  /\ continue_from' = chain
  /\ UNCHANGED <<signatures, require_single_batch>>

PredictContinuation ==
  /\ ~chain.none
  /\ op' = "predict_continuation"
  /\ \E steps \in PredictSteps, times \in PredictTimes,
        exogenous_features \in PredictExogenous, session \in Sessions :
       /\ data' = IF exogenous_features.none THEN EmptyDict
                  ELSE exogenous_features.some
       /\ result' = predict_continuation(chain.some, signatures, session,
                                          steps, times, exogenous_features)
  /\ continue_from' = chain
  /\ UNCHANGED <<signatures, require_single_batch, chain>>

Next ==
  \/ Evaluate
  \/ Canonicalize
  \/ ColdStartFilter
  \/ FilterContinuation
  \/ PredictContinuation

Spec == Init /\ [][Next]_vars

----------------------------------------------------------------------------
(* Properties of _canonicalize_numpy_data, checked under SpecCanon. *)

Canonicalized_ok == op = "canonicalize" /\ result.status = "ok"

\* p is a prefix of s.
IsPrefix(p, s) == Len(p) <= Len(s) /\ \A i \in 1 .. Len(p) : s[i] = p[i]

\* [batch size, series length] of times of shape s.
BatchMajor(s) ==
  IF Len(s) = 0 THEN <<1, 1>> ELSE IF Len(s) = 1 THEN <<1, s[1]>> ELSE s

\* C1: an accepted input is returned with the same keys, with TIMES of
\* exactly 2 dimensions ((1,1) for scalar times, (1,n) for a vector of
\* length n, unchanged for batched times), and with every feature's shape
\* starting with the shape of the returned TIMES.
C1_BatchMajorLayout ==
  Canonicalized_ok =>
    /\ DOMAIN result.value = DOMAIN data
    /\ Len(result.value[TIMES].shape) = 2
    /\ result.value[TIMES].shape = BatchMajor(data[TIMES].shape)
    /\ \A k \in DOMAIN result.value :
         IsPrefix(result.value[TIMES].shape, result.value[k].shape)

C1_Witness ==
  /\ Canonicalized_ok
  /\ data[TIMES].shape = <<MaxDim>>
  /\ EXOG \in DOMAIN data
  /\ data[EXOG].shape = <<MaxDim, MaxDim>>

\* C2: in a returned dictionary VALUES has exactly 3 dimensions, and VALUES
\* given without a number-of-features dimension (with the shape of TIMES)
\* comes back as [batch size x series length x 1].
C2_OmittedDimensionsAreOne ==
  Canonicalized_ok =>
    /\ Len(result.value[VALUES].shape) = 3
    /\ data[VALUES].shape = data[TIMES].shape =>
         result.value[VALUES].shape = BatchMajor(data[TIMES].shape) \o <<1>>

\* C3: ValueError is raised whenever TIMES has more than 2 dimensions and
\* whenever VALUES has more than one dimension beyond those of TIMES.
C3_IncorrectDimensionsRaise ==
  ( /\ op = "canonicalize"
    /\ TIMES \in DOMAIN data
    /\ VALUES \in DOMAIN data
    /\ \/ Len(data[TIMES].shape) > 2
       \/ Len(data[VALUES].shape) > Len(data[TIMES].shape) + 1 )
  => result.status = "ValueError"

\* C5: with TIMES and VALUES present, ValueError is raised if the shape of any
\* feature is not prefixed by the shape of TIMES; every feature of a returned
\* dictionary had its input shape prefixed by the input shape of TIMES.
C5_PrefixMismatchRaises ==
  (op = "canonicalize" /\ TIMES \in DOMAIN data /\ VALUES \in DOMAIN data) =>
    /\ (\E k \in DOMAIN data : ~IsPrefix(data[TIMES].shape, data[k].shape))
         => result.status = "ValueError"
    /\ result.status = "ok" =>
         \A k \in DOMAIN result.value :
           IsPrefix(data[TIMES].shape, data[k].shape)

C5_Witness ==
  /\ op = "canonicalize"
  /\ TIMES \in DOMAIN data /\ VALUES \in DOMAIN data /\ EXOG \in DOMAIN data
  /\ data[TIMES].shape = <<MaxDim>>
  /\ data[VALUES].shape = <<MaxDim, 1>>
  /\ data[EXOG].shape = <<1>>
  /\ result.status = "ValueError"

\* Data of one of the documented forms: TIMES of at most 2 dimensions, VALUES
\* with the shape of TIMES and at most one more dimension, and every feature
\* prefixed by the shape of TIMES.
Documented(d) ==
  /\ TIMES \in DOMAIN d /\ VALUES \in DOMAIN d
  /\ Len(d[TIMES].shape) <= 2
  /\ Len(d[VALUES].shape) <= Len(d[TIMES].shape) + 1
  /\ \A k \in DOMAIN d : IsPrefix(d[TIMES].shape, d[k].shape)

BatchSize(d) == BatchMajor(d[TIMES].shape)[1]

\* C6 as stated: with require_single_batch, documented data is rejected if
\* its batch dimension is > 1 and accepted if it is not; without
\* require_single_batch it is accepted whatever its batch size.
C6_RejectedIffBatchGreaterThanOne ==
  (op = "canonicalize" /\ Documented(data)) =>
    IF require_single_batch
    THEN result.status = "ValueError" <=> BatchSize(data) > 1
    ELSE result.status = "ok"

\* C6 as amended: with require_single_batch, documented data is accepted
\* exactly if its batch dimension is 1; an empty batch is rejected like a
\* batch of several sequences.
C6_RejectedIffBatchNotOne ==
  (op = "canonicalize" /\ Documented(data)) =>
    IF require_single_batch
    THEN /\ result.status = "ValueError" <=> BatchSize(data) # 1
         /\ result.status \in {"ok", "ValueError"}
    ELSE result.status = "ok"

C6_Witness ==
  /\ op = "canonicalize"
  /\ Documented(data)
  /\ require_single_batch
  /\ data[TIMES].shape = <<0, MaxDim>>
  /\ result.status = "ValueError"

----------------------------------------------------------------------------
(* Properties of the wrappers, checked under Spec. *)

Filtered == op \in {"cold_start_filter", "filter_continuation"}

\* C4: if the data lacks the TIMES key or the VALUES key, a ValueError is
\* raised, whatever the other features and require_single_batch are; in
\* cold_start_filter and filter_continuation the session is not run.
C4_MissingRequiredRaises ==
  ( /\ op = "canonicalize" \/ Filtered
    /\ TIMES \notin DOMAIN data \/ VALUES \notin DOMAIN data )
  => (result.status = "ValueError" /\ ~result.ran)

C4_Witness ==
  /\ op = "filter_continuation"
  /\ DOMAIN data = {TIMES, EXOG}
  /\ result.status = "ValueError"
  /\ ~result.ran

\* C7: every dictionary returned by cold_start_filter or by a
\* filter_continuation continuing from an earlier result has as its TIMES
\* entry the features' TIMES of that same call, in [batch size x series
\* length] layout, whatever the session returned and continue_from carried.
C7_TracksCurrentTimes ==
  (Filtered /\ result.status = "ok") =>
    /\ TIMES \in DOMAIN result.value
    /\ result.value[TIMES] =
         Array(BatchMajor(data[TIMES].shape), data[TIMES].data)

C7_Witness ==
  /\ op = "filter_continuation"
  /\ result.status = "ok"
  /\ signatures.times_output
  /\ STATE_TUPLE \notin DOMAIN continue_from.some
  /\ continue_from.some[TIMES].data # data[TIMES].data
  /\ result.value[TIMES].data = data[TIMES].data

\* C8: the dictionary returned by predict_continuation has the TIMES key, and
\* its value is the prediction times derived from times/steps and
\* continue_from, for every exogenous_features.
C8_ReturnsPredictionTimes ==
  (op = "predict_continuation" /\ result.status = "ok") =>
    /\ TIMES \in DOMAIN result.value
    /\ result.value[TIMES] = result.predict_times.some

\* The signature a wrapper uses.
SignatureOf(o) ==
  SignatureDef(signatures,
               IF o = "cold_start_filter" THEN COLD_START_FILTER
               ELSE IF o = "filter_continuation" THEN FILTER ELSE PREDICT)

\* The keys of the state taken from continue_from.
StateKeysOf(cf) ==
  IF cf.none THEN {}
  ELSE IF STATE_TUPLE \in DOMAIN cf.some
  THEN {StateKey(i - 1) : i \in 1 .. Len(cf.some[STATE_TUPLE].tuple)}
  ELSE DOMAIN cf.some

\* C9: the keys of the feed dictionary are exactly the graph elements the
\* signature's inputs name for the state keys and the feature keys (no state
\* keys for cold_start_filter, the flattened state tuple's keys when
\* continue_from has STATE_TUPLE, all keys of continue_from otherwise); the
\* fetch dictionary has one entry per signature output.
C9_FeedsAndFetches ==
  result.ran =>
    LET sig == SignatureOf(op) IN
    /\ op = "cold_start_filter" => continue_from.none
    /\ DOMAIN result.feed_dict =
         {as_graph_element(sig.inputs[k]) :
            k \in StateKeysOf(continue_from) \cup DOMAIN result.features}
    /\ DOMAIN result.fetches = DOMAIN sig.outputs
    /\ \A k \in DOMAIN sig.outputs :
         result.fetches[k] = as_graph_element(sig.outputs[k])

C9_Witness ==
  /\ result.ran
  /\ op = "filter_continuation"
  /\ STATE_TUPLE \in DOMAIN continue_from.some
  /\ LOSS \in DOMAIN continue_from.some
  /\ EXOG \in DOMAIN data

\* C10: for a key that is both in the state taken from continue_from and in
\* the features, the session is fed the value from the features of the
\* current call; the TIMES carried in continue_from is never fed.
C10_FeaturesOverrideState ==
  (result.ran /\ ~continue_from.none) =>
    LET sig == SignatureOf(op) IN
    /\ \A k \in StateKeysOf(continue_from) \cap DOMAIN result.features :
         result.feed_dict[as_graph_element(sig.inputs[k])] = result.features[k]
    /\ op = "filter_continuation" =>
         result.feed_dict[as_graph_element(sig.inputs[TIMES])].data
           = data[TIMES].data

C10_Witness ==
  /\ result.ran
  /\ op = "filter_continuation"
  /\ STATE_TUPLE \notin DOMAIN continue_from.some
  /\ TIMES \in DOMAIN continue_from.some
  /\ continue_from.some[TIMES].data # data[TIMES].data

====
